---- MODULE Spec2Model ----
(***************************************************************************)
(* Board view of obsidian-projects: the record-update handler of           *)
(* BoardView.svelte (handleRecordUpdate), the column-reorder handler       *)
(* (handleSortColumns) and saveConfig, over a small record store; and the  *)
(* settings store of the plugin (main.ts) from onload to onunload.         *)
(*                                                                         *)
(* Records are identified by their id; a list of records is a sequence of  *)
(* ids and a record's values are looked up in the store.  JavaScript       *)
(* objects with optional keys are functions whose DOMAIN is the set of     *)
(* keys present.  Indexes are zero-based as in the source, -1 is "not      *)
(* found".                                                                 *)
(***************************************************************************)
EXTENDS Integers, Sequences, FiniteSets, TLC

\* Number of record ids of the model, and of those the notes of a board with a
\* grouping field (two columns) take their ids from.
NumRecords == 3
NumGrouped == 2

\* Number of workspaces the create-workspace callbacks can add.
NumWorkspaces == 3

Ids == 1..NumRecords

\* Column keys of a board grouped by a field, and the key of the single
\* column of a board without a grouping field.
Columns == {"Todo", "Done"}
NoStatus == "No status"

Triggers == {"addToColumn", "removeFromColumn", "reorderWithinColumn"}

\* An absent id (records[index - 1] out of range) and an absent field value.
NoId == 0
NoValue == 0 - 1

\* The object without keys, and object spread {...a, ...b}.
Empty == [k \in {} |-> 0]

Spread(a, b) ==
  [k \in DOMAIN a \cup DOMAIN b |-> IF k \in DOMAIN b THEN b[k] ELSE a[k]]

VARIABLES
  groupByField,  \* TRUE when the board has a grouping field
  store,         \* the record store: id -> [live, group, sync]
  config,        \* the component's config: [defined, value]
  saved,         \* the values handed to onConfigChange, in order (last one kept)
  call,          \* the last handler call: its arguments and what it did
  plugin         \* the plugin: position of onload, settings store, data on disk

vars == <<groupByField, store, config, saved, call, plugin>>

----------------------------------------------------------------------------
(* Sequences as JavaScript arrays *)

\* Array.prototype.findIndex on ids: zero-based, -1 when absent.
FindIndex(s, x) ==
  IF \E i \in 1..Len(s) : s[i] = x
    THEN (CHOOSE i \in 1..Len(s) : s[i] = x /\ \A j \in 1..(i - 1) : s[j] # x) - 1
    ELSE 0 - 1

\* s[i] with a zero-based index; NoId when out of range.
At(s, i) == IF i >= 0 /\ i < Len(s) THEN s[i + 1] ELSE NoId

\* s.splice(i, 1)
SpliceRemove(s, i) == SubSeq(s, 1, i) \o SubSeq(s, i + 2, Len(s))

\* s.splice(i, 0, x)
SpliceInsert(s, i, x) == SubSeq(s, 1, i) \o <<x>> \o SubSeq(s, i + 1, Len(s))

Range(s) == {s[i] : i \in 1..Len(s)}

\* The sequences over the set S that list every element exactly once.
Orderings(S) ==
  {s \in [1..Cardinality(S) -> S] : \A i, j \in 1..Cardinality(S) : s[i] = s[j] => i = j}

----------------------------------------------------------------------------
(* The props of the component *)

\* config ?? {} : what `...config` and `config?.` see.
Cfg == IF config.defined THEN config.value ELSE Empty

\* config?.columns, or the empty object.
CfgColumns == IF "columns" \in DOMAIN Cfg THEN Cfg.columns ELSE Empty

\* config?.columns?.[column], or the empty object.
CfgColumn(column) ==
  IF column \in DOMAIN CfgColumns THEN CfgColumns[column] ELSE Empty

\* config?.columns?.[column]?.records is defined.
HasConfigIds(column) == "records" \in DOMAIN CfgColumn(column)

ConfigIds(column) == IF HasConfigIds(column) THEN CfgColumn(column).records ELSE <<>>

\* The reactive orderSyncField: the sync field is configured.
OrderSyncField == "orderSyncField" \in DOMAIN Cfg

\* getRecord(id) resolves exactly the records of the live frame.
GetRecord(id) == store[id].live

ColumnKeys == IF groupByField THEN Columns ELSE {NoStatus}

\* The ids the notes of the project can have.
Notes == IF groupByField THEN 1..NumGrouped ELSE Ids

\* The live records the board shows in a column.
Members(column) ==
  {i \in Ids : store[i].live /\ (groupByField => store[i].group = column)}

----------------------------------------------------------------------------
(* handleRecordUpdate *)

\* Variant: the record keeps the grouping value it came with.
StampedNever(record, column, trigger) == store[record].group

\* The grouping value of `record` after the stamp of the first step.
Stamped(record, column, trigger) ==
  IF trigger = "addToColumn" /\ groupByField THEN column ELSE store[record].group

\* Variant: the persisted ids taken as they are, unresolved ones included.
ConfigRecordsUnresolved(column) == ConfigIds(column)

\* The persisted ids of the column resolved by getRecord, unresolved ones dropped.
ConfigRecords(column) == SelectSeq(ConfigIds(column), GetRecord)

\* Variant: the persisted list is loaded without sort or filter as well.
IsConfigRecordsLoadedAlways(column, hasSort, hasFilter) == HasConfigIds(column)

\* Variant: a column without persisted list counts as one with an empty list.
IsConfigRecordsLoadedEmpty(column, hasSort, hasFilter) == hasSort \/ hasFilter

\* The branch on sort or filter is taken and the column has a persisted list.
IsConfigRecordsLoaded(column, hasSort, hasFilter) ==
  (hasSort \/ hasFilter) /\ HasConfigIds(column)

\* Variant: the mutated record is stripped under a sort as well.
StrippedAlways(configRecords, record, trigger, hasSort) ==
  LET configRecordIndex == FindIndex(configRecords, record)
  IN  IF configRecordIndex # 0 - 1
        THEN SpliceRemove(configRecords, configRecordIndex)
        ELSE configRecords

\* The splice that strips the mutated record from the config records.
Stripped(configRecords, record, trigger, hasSort) ==
  LET configRecordIndex == FindIndex(configRecords, record)
      isRecordInConfig == configRecordIndex # 0 - 1
  IN  IF isRecordInConfig /\ (trigger = "removeFromColumn" \/ ~hasSort)
        THEN SpliceRemove(configRecords, configRecordIndex)
        ELSE configRecords

\* Variant: the record is put before its previous neighbour, not after it.
PositionBeforeNeighbour(configRecords, record, records) ==
  LET index == FindIndex(records, record)
      before == At(records, index - 1)
      after == At(records, index + 1)
      beforeIndex == FindIndex(configRecords, before)
      p1 == IF before # NoId /\ beforeIndex # 0 - 1 THEN beforeIndex ELSE 0 - 1
      p2 == IF after # NoId /\ p1 = 0 - 1 THEN FindIndex(configRecords, after) ELSE p1
  IN  IF p2 = 0 - 1 THEN Len(configRecords) ELSE p2

\* The insert position under a filter, from the record's neighbours in `records`.
Position(configRecords, record, records) ==
  LET index == FindIndex(records, record)
      before == At(records, index - 1)
      after == At(records, index + 1)
      beforeIndex == FindIndex(configRecords, before)
      p1 == IF before # NoId /\ beforeIndex # 0 - 1 THEN beforeIndex + 1 ELSE 0 - 1
      p2 == IF after # NoId /\ p1 = 0 - 1 THEN FindIndex(configRecords, after) ELSE p1
  IN  IF p2 = 0 - 1 THEN Len(configRecords) ELSE p2

\* Variant: under a sort the record is pushed even when it is in the config.
InsertedAlwaysPush(configRecords, isRecordInConfig, record, records, trigger, hasSort, hasFilter) ==
  IF trigger = "addToColumn"
    THEN IF hasSort
           THEN Append(configRecords, record)
           ELSE IF hasFilter
                  THEN SpliceInsert(configRecords, Position(configRecords, record, records), record)
                  ELSE configRecords
    ELSE configRecords

\* Variant: the filter branch is tested before the sort branch.
InsertedFilterFirst(configRecords, isRecordInConfig, record, records, trigger, hasSort, hasFilter) ==
  IF trigger = "addToColumn"
    THEN IF hasFilter
           THEN IF ~isRecordInConfig
                  THEN SpliceInsert(configRecords, Position(configRecords, record, records), record)
                  ELSE configRecords
           ELSE IF hasSort /\ ~isRecordInConfig
                  THEN Append(configRecords, record)
                  ELSE configRecords
    ELSE configRecords

\* The config records after the addToColumn branch.
Inserted(configRecords, isRecordInConfig, record, records, trigger, hasSort, hasFilter) ==
  IF trigger = "addToColumn"
    THEN IF hasSort
           THEN IF ~isRecordInConfig THEN Append(configRecords, record) ELSE configRecords
           ELSE IF hasFilter
                  THEN SpliceInsert(configRecords, Position(configRecords, record, records), record)
                  ELSE configRecords
    ELSE configRecords

\* Variant: the records the config records lack are put in front.
MergedInFront(configRecords, record, records) ==
  SelectSeq(records, LAMBDA r1 : r1 # record /\ FindIndex(configRecords, r1) = 0 - 1)
    \o configRecords

\* The config records followed by the records of `records` they lack.
Merged(configRecords, record, records) ==
  configRecords \o
    SelectSeq(records, LAMBDA r1 : r1 # record /\ FindIndex(configRecords, r1) = 0 - 1)

\* `records` as it is when the config is saved.
FinalRecords(record, column, records, trigger, hasSort, hasFilter) ==
  IF IsConfigRecordsLoaded(column, hasSort, hasFilter)
    THEN LET configRecords == ConfigRecords(column)
             isRecordInConfig == FindIndex(configRecords, record) # 0 - 1
         IN  Merged(Inserted(Stripped(configRecords, record, trigger, hasSort),
                             isRecordInConfig, record, records, trigger, hasSort, hasFilter),
                    record, records)
    ELSE records

\* Variant: the columns are built anew from the target column alone.
NewConfigOneColumn(column, ids) ==
  Spread(Cfg, [columns |-> column :> [records |-> ids]])

\* The config handed to saveConfig.
NewConfig(column, ids) ==
  Spread(Cfg,
         [columns |-> Spread(CfgColumns,
                             column :> Spread(CfgColumn(column), [records |-> ids]))])

\* Variants: the sync field is written only when a persisted list was loaded;
\* the sync field is written whenever it is configured.
SyncsOrderLoadedOnly(loaded, hasSort) == OrderSyncField /\ loaded
SyncsOrderAlways(loaded, hasSort) == OrderSyncField

\* The sync-field branch is taken.
SyncsOrder(loaded, hasSort) == OrderSyncField /\ (loaded \/ ~hasSort)

\* Variant: the records are written on a removal as well.
RecordsToUpdateOnRemoval(record, column, final, trigger, loaded, hasSort) ==
  IF SyncsOrder(loaded, hasSort)
    THEN LET kept == SelectSeq(final, LAMBDA id : id = record \/ store[id].sync # FindIndex(final, id))
         IN  [k \in 1..Len(kept) |->
                [id |-> kept[k], group |-> store[kept[k]].group,
                 sync |-> FindIndex(final, kept[k])]]
    ELSE << [id |-> record, group |-> store[record].group, sync |-> store[record].sync] >>

\* recordsToUpdate: the records handed to api.updateRecord, in order, each
\* with the values it carries.
RecordsToUpdate(record, column, final, trigger, loaded, hasSort) ==
  IF trigger = "removeFromColumn" THEN <<>>
  ELSE IF SyncsOrder(loaded, hasSort)
    THEN LET cand == [k \in 1..Len(final) |->
                        IF final[k] = record
                          THEN [id |-> record, group |-> Stamped(record, column, trigger),
                                sync |-> k - 1, push |-> TRUE]
                          ELSE [id |-> final[k], group |-> store[final[k]].group,
                                sync |-> k - 1, push |-> store[final[k]].sync # k - 1]]
             kept == SelectSeq(cand, LAMBDA u : u.push)
         IN  [k \in 1..Len(kept) |->
                [id |-> kept[k].id, group |-> kept[k].group, sync |-> kept[k].sync]]
    ELSE << [id |-> record, group |-> Stamped(record, column, trigger),
             sync |-> store[record].sync] >>

\* api.updateRecord for each record of `us`: the store takes the values.
ApplyUpdates(st, us) ==
  [i \in Ids |->
     IF \E k \in 1..Len(us) : us[k].id = i
       THEN LET k == CHOOSE k \in 1..Len(us) :
                       us[k].id = i /\ \A j \in (k + 1)..Len(us) : us[j].id # i
            IN  [live |-> st[i].live, group |-> us[k].group, sync |-> us[k].sync]
       ELSE st[i]]

\* The lists the board can hand over for a column: the visible records of the
\* column in any order, with the mutated record among them unless it was removed.
UILists(record, column, trigger, hasFilter) ==
  LET others == Members(column) \ {record}
      visible == IF hasFilter THEN SUBSET others ELSE {others}
  IN  UNION {Orderings(IF trigger = "removeFromColumn" THEN v ELSE v \cup {record}) :
               v \in visible}

NoCall ==
  [op |-> "none", record |-> NoId, column |-> NoStatus, records |-> <<>>,
   trigger |-> "none", hasSort |-> FALSE, hasFilter |-> FALSE,
   hadConfigIds |-> FALSE, configIds |-> <<>>, loaded |-> FALSE,
   final |-> <<>>, updates |-> <<>>, saves |-> 0,
   again |-> FALSE, first |-> <<>>, names |-> <<>>]

saveConfig(cfg) ==
  /\ config' = [defined |-> TRUE, value |-> cfg]
  /\ saved' = [defined |-> TRUE, value |-> cfg]

handleRecordUpdate(record, column, records, trigger, hasSort, hasFilter, again) ==
  LET loaded == IsConfigRecordsLoaded(column, hasSort, hasFilter)
      final == FinalRecords(record, column, records, trigger, hasSort, hasFilter)
      updates == RecordsToUpdate(record, column, final, trigger, loaded, hasSort)
  IN  /\ saveConfig(NewConfig(column, final))
      /\ store' = ApplyUpdates(store, updates)
      /\ call' = [op |-> "handleRecordUpdate", record |-> record, column |-> column,
                  records |-> records, trigger |-> trigger,
                  hasSort |-> hasSort, hasFilter |-> hasFilter,
                  hadConfigIds |-> HasConfigIds(column),
                  configIds |-> ConfigIds(column), loaded |-> loaded,
                  final |-> final, updates |-> updates, saves |-> 1,
                  again |-> again, first |-> IF again THEN call.final ELSE <<>>,
                  names |-> <<>>]
      /\ UNCHANGED <<groupByField, plugin>>

\* No handler is running: the board is rendered and waits for an event.
Idle == call.op = "none"

HandleRecordUpdate ==
  \E record \in Ids, column \in ColumnKeys, trigger \in Triggers,
     hasSort \in BOOLEAN, hasFilter \in BOOLEAN :
    /\ Idle
    /\ store[record].live
    /\ trigger = "reorderWithinColumn" => record \in Members(column)
    /\ \E records \in UILists(record, column, trigger, hasFilter) :
         handleRecordUpdate(record, column, records, trigger, hasSort, hasFilter, FALSE)

\* The same mutation event once more, right after the handler has returned
\* and before anything else happens.
HandleRecordUpdateAgain ==
  /\ call.op = "handleRecordUpdate"
  /\ ~call.again
  /\ handleRecordUpdate(call.record, call.column, call.records, call.trigger,
                        call.hasSort, call.hasFilter, TRUE)

----------------------------------------------------------------------------
(* handleSortColumns *)

handleSortColumns(names) ==
  /\ saveConfig(Spread(Cfg,
       [columns |-> [name \in Range(names) |->
                       Spread(CfgColumn(name), [weight |-> FindIndex(names, name)])]]))
  /\ call' = [NoCall EXCEPT !.op = "handleSortColumns", !.saves = 1, !.names = names]
  /\ UNCHANGED <<groupByField, store, plugin>>

HandleSortColumns ==
  \E shown \in SUBSET ColumnKeys : \E names \in Orderings(shown) :
    /\ Idle
    /\ names # <<>>
    /\ handleSortColumns(names)

----------------------------------------------------------------------------
(* The record store behind the frame *)

\* handleRecordAdd: the create modal adds a record to a column.
handleRecordAdd(id, column) ==
  /\ Idle
  /\ ~store[id].live
  /\ store' = [store EXCEPT ![id] =
                 [live |-> TRUE,
                  group |-> IF groupByField THEN column ELSE NoStatus,
                  sync |-> NoValue]]
  /\ UNCHANGED <<groupByField, config, saved, call, plugin>>

HandleRecordAdd == \E id \in Notes, column \in ColumnKeys : handleRecordAdd(id, column)

\* handleRecordClick: the edit modal hands the edited record to api.updateRecord;
\* of the fields of the model the user edits the grouping value, if there is one.
handleRecordClick(id, column) ==
  /\ Idle
  /\ store[id].live
  /\ store' = [store EXCEPT ![id].group = IF groupByField THEN column ELSE @]
  /\ UNCHANGED <<groupByField, config, saved, call, plugin>>

HandleRecordClick == \E id \in Ids, column \in ColumnKeys : handleRecordClick(id, column)

\* A new frame without the record: its note was deleted.
FrameDrops(id) ==
  /\ Idle
  /\ store[id].live
  /\ store' = [store EXCEPT ![id] = [live |-> FALSE, group |-> NoStatus, sync |-> NoValue]]
  /\ UNCHANGED <<groupByField, config, saved, call, plugin>>

FrameChange == \E id \in Ids : FrameDrops(id)

----------------------------------------------------------------------------

\* The handler has returned and the board is rendered again.
Render ==
  /\ ~Idle
  /\ call' = NoCall
  /\ UNCHANGED <<groupByField, store, config, saved, plugin>>

----------------------------------------------------------------------------
(* main.ts: the settings store of the plugin.  A workspace is its id, the
   value of the store and the data on disk are the lists of workspaces. *)

Workspaces == 1..NumWorkspaces

\* The workspace the data on disk can hold from an earlier session.
Earlier == 0

\* The plugin before onload, with `data` on disk.
Enabled(data) ==
  [pc |-> "start", settings |-> <<>>, disk |-> data, subscribed |-> FALSE,
   unloaded |-> FALSE, threw |-> FALSE,
   added |-> {}, unsaved |-> {}, savedAfterUnload |-> FALSE]

\* this.saveData(value), for the plugin state p.
saveData(p, value) ==
  [p EXCEPT !.disk = value,
            !.unsaved = {w \in @ : \A k \in 1..Len(value) : value[k] # w},
            !.savedAfterUnload = @ \/ p.unloaded]

\* settings.update of the create-workspace callbacks: the workspace is pushed
\* and the subscribers of the store, if any, are called with the new value.
createWorkspace(workspace) ==
  LET value == Append(plugin.settings, workspace)
      pushed == [plugin EXCEPT !.settings = value,
                               !.added = @ \cup {workspace},
                               !.unsaved = @ \cup {workspace}]
  IN  /\ plugin.pc # "start"
      /\ ~plugin.unloaded
      /\ workspace \notin plugin.added
      /\ plugin' = IF plugin.subscribed THEN saveData(pushed, value) ELSE pushed
      /\ UNCHANGED <<groupByField, store, config, saved, call>>

\* onload up to the await: the view, the menu item and the commands are
\* registered and loadData is called.
Onload ==
  /\ plugin.pc = "start"
  /\ plugin' = [plugin EXCEPT !.pc = "loading"]
  /\ UNCHANGED <<groupByField, store, config, saved, call>>

\* The item of the folder menu and the command create-workspace.
CreateWorkspaceMenu == \E workspace \in Workspaces : createWorkspace(workspace)

CreateWorkspaceCommand == \E workspace \in Workspaces : createWorkspace(workspace)

\* loadData has returned: onload sets the store to the loaded data and
\* subscribes to it; the store calls the subscriber with its value at once.
LoadDataReturns ==
  /\ plugin.pc = "loading"
  /\ plugin' = saveData([plugin EXCEPT !.pc = "loaded", !.settings = plugin.disk,
                                       !.subscribed = TRUE],
                        plugin.disk)
  /\ UNCHANGED <<groupByField, store, config, saved, call>>

\* onunload: this.unsubscribeSettings() ends the subscription; it is still
\* undefined, and the call throws, while onload waits for loadData.
Onunload ==
  /\ plugin.pc # "start"
  /\ ~plugin.unloaded
  /\ plugin' = [plugin EXCEPT !.unloaded = TRUE,
                              !.subscribed = FALSE,
                              !.threw = plugin.pc = "loading"]
  /\ UNCHANGED <<groupByField, store, config, saved, call>>

----------------------------------------------------------------------------

Fresh ==
  /\ store = [i \in Ids |-> [live |-> FALSE, group |-> NoStatus, sync |-> NoValue]]
  /\ saved = [defined |-> FALSE, value |-> Empty]
  /\ call = NoCall
  /\ plugin = Enabled(<<>>)

\* A board without grouping field (one column) and without sync field: the
\* config is undefined or empty.
Init ==
  /\ groupByField = FALSE
  /\ Fresh
  /\ config \in {[defined |-> FALSE, value |-> Empty], [defined |-> TRUE, value |-> Empty]}

\* The same board with a sync field named in the config.
InitSync ==
  /\ groupByField = FALSE
  /\ Fresh
  /\ config = [defined |-> TRUE, value |-> [orderSyncField |-> "order"]]

\* A board with a grouping field (two columns), with or without sync field.
InitBoard ==
  /\ groupByField = TRUE
  /\ Fresh
  /\ config \in {[defined |-> FALSE, value |-> Empty],
                 [defined |-> TRUE, value |-> Empty],
                 [defined |-> TRUE, value |-> [orderSyncField |-> "order"]]}

Next ==
  \/ HandleRecordUpdate
  \/ HandleRecordUpdateAgain
  \/ HandleSortColumns
  \/ HandleRecordAdd
  \/ HandleRecordClick
  \/ FrameChange
  \/ Render

Spec == Init /\ [][Next]_vars

SpecSync == InitSync /\ [][Next]_vars

SpecBoard == InitBoard /\ [][Next]_vars

\* The plugin from the moment it is enabled, with or without data of an earlier
\* session on disk; no board is open.
InitPlugin ==
  /\ groupByField = FALSE
  /\ store = [i \in Ids |-> [live |-> FALSE, group |-> NoStatus, sync |-> NoValue]]
  /\ config = [defined |-> FALSE, value |-> Empty]
  /\ saved = [defined |-> FALSE, value |-> Empty]
  /\ call = NoCall
  /\ plugin \in {Enabled(<<>>), Enabled(<<Earlier>>)}

NextPlugin ==
  \/ Onload
  \/ CreateWorkspaceMenu
  \/ CreateWorkspaceCommand
  \/ LoadDataReturns
  \/ Onunload

SpecPlugin == InitPlugin /\ [][NextPlugin]_vars

----------------------------------------------------------------------------
(* Properties of handleRecordUpdate.  `call` holds the arguments of the call
   that has just returned; store and config are the state it left. *)

Called == call.op = "handleRecordUpdate"

\* The ids persisted for the column of the last call.
SavedIds == ConfigIds(call.column)

NoRepeat(s) == \A i, j \in 1..Len(s) : s[i] = s[j] => i = j

\* The live ids of s, in order, and s without x.
LiveOf(s) == SelectSeq(s, LAMBDA id : store[id].live)
Without(s, x) == SelectSeq(s, LAMBDA id : id # x)

\* The one-based place of x in s (x is in s).
PlaceOf(s, x) == CHOOSE i \in 1..Len(s) : s[i] = x

\* C1: after a call whose trigger is not removeFromColumn and whose UI list
\* contains the mutated record, the list saved for the column contains the
\* mutated record.
C1_RecordNeverLost ==
  (Called /\ call.trigger # "removeFromColumn" /\ call.record \in Range(call.records))
    => call.record \in Range(SavedIds)

\* C2: no list persisted for a column contains the same id twice.
C2_NoDuplicates ==
  \A column \in DOMAIN CfgColumns : NoRepeat(ConfigIds(column))

\* C2 witness: addToColumn of a record that was already in the persisted list
\* the handler loaded.
C2_Witness ==
  /\ Called
  /\ call.trigger = "addToColumn"
  /\ call.loaded
  /\ call.record \in Range(call.configIds)
  /\ Len(SavedIds) >= 2

\* C3: an id of the persisted list that getRecord does not resolve is not in
\* the list the handler saves, whatever the trigger, sort and filter.
C3_DriftRepair ==
  Called =>
    \A id \in Range(call.configIds) : ~GetRecord(id) => id \notin Range(SavedIds)

\* C3 witness: the handler loaded a persisted list with an unresolvable id and
\* saved a list that is not empty.
C3_Witness ==
  /\ Called
  /\ call.loaded
  /\ \E id \in Range(call.configIds) : ~GetRecord(id)
  /\ SavedIds # <<>>

\* C4: the same mutation event handled a second time, against the config the
\* first call saved, leaves the same list persisted for the column.
C4_Idempotent ==
  (Called /\ call.again) => SavedIds = call.first

\* C5: without sort and without filter the handler persists exactly the ids
\* of the UI-supplied list, in its order.
C5_Verbatim ==
  (Called /\ ~call.hasSort /\ ~call.hasFilter) => SavedIds = call.records

\* C5 witness: such a call on a column whose persisted list was another one.
C5_Witness ==
  /\ Called
  /\ ~call.hasSort
  /\ ~call.hasFilter
  /\ call.hadConfigIds
  /\ call.configIds # call.records
  /\ Len(call.records) >= 2

\* C6: addToColumn under a filter without sort, with a persisted list L: the
\* record is taken out of the resolved L and put right after its previous UI
\* neighbour if that one is in L, else right before its next UI neighbour if
\* that one is in L, else at the end of L.
C6_FilterInsert ==
  (Called /\ call.trigger = "addToColumn" /\ call.hasFilter /\ ~call.hasSort
     /\ call.hadConfigIds) =>
    LET L == Without(LiveOf(call.configIds), call.record)
        k == PlaceOf(call.records, call.record)
        before == IF k > 1 THEN call.records[k - 1] ELSE NoId
        after == IF k < Len(call.records) THEN call.records[k + 1] ELSE NoId
        place == IF before \in Range(L) THEN PlaceOf(L, before) + 1
                 ELSE IF after \in Range(L) THEN PlaceOf(L, after)
                 ELSE Len(L) + 1
    IN  /\ Len(SavedIds) >= Len(L) + 1
        /\ SavedIds[place] = call.record
        /\ Without(SubSeq(SavedIds, 1, Len(L) + 1), call.record) = L

\* C6 witness: the example of the claim, L = [A, C], UI order [A, B, C], B added.
C6_Witness ==
  /\ Called
  /\ call.trigger = "addToColumn"
  /\ call.hasFilter
  /\ ~call.hasSort
  /\ call.hadConfigIds
  /\ call.configIds = <<1, 3>>
  /\ call.records = <<1, 2, 3>>
  /\ call.record = 2
  /\ SavedIds = <<1, 2, 3>>

\* C7: addToColumn under a sort, with a persisted list L: the saved list starts
\* with the live records of L in their order; a record that is not in L comes
\* right after them, a record that is in L keeps its place.
C7_SortAdd ==
  (Called /\ call.trigger = "addToColumn" /\ call.hasSort /\ call.hadConfigIds) =>
    LET L == LiveOf(call.configIds)
    IN  /\ Len(SavedIds) >= Len(L)
        /\ SubSeq(SavedIds, 1, Len(L)) = L
        /\ call.record \notin Range(L) =>
             (Len(SavedIds) > Len(L) /\ SavedIds[Len(L) + 1] = call.record)
        /\ call.record \in Range(L) =>
             PlaceOf(SavedIds, call.record) = PlaceOf(L, call.record)

\* C7 witness: the example of the claim, L = [A, B], C added.
C7_Witness ==
  /\ Called
  /\ call.trigger = "addToColumn"
  /\ call.hasSort
  /\ call.hadConfigIds
  /\ call.configIds = <<1, 2>>
  /\ call.record = 3
  /\ SavedIds = <<1, 2, 3>>

\* C8 as claimed: with a sync field configured, every live record of a
\* persisted list has a sync value equal to its zero-based index in the list.
C8_SyncEqualsPosition ==
  OrderSyncField =>
    \A column \in DOMAIN CfgColumns :
      \A k \in 1..Len(ConfigIds(column)) :
        store[ConfigIds(column)[k]].live => store[ConfigIds(column)[k]].sync = k - 1

\* C8 amended: with a sync field configured, right after a call whose trigger
\* is not removeFromColumn and that loaded a persisted list or ran without
\* sort, every record of the list saved for the column has a sync value equal
\* to its zero-based index in that list.
C8_SyncAfterCall ==
  (Called /\ OrderSyncField /\ call.trigger # "removeFromColumn"
     /\ (call.loaded \/ ~call.hasSort)) =>
    \A k \in 1..Len(SavedIds) : store[SavedIds[k]].sync = k - 1

\* C8 witness: such a call that renumbered the mutated record and another one.
C8_Witness ==
  /\ Called
  /\ OrderSyncField
  /\ call.trigger # "removeFromColumn"
  /\ (call.loaded \/ ~call.hasSort)
  /\ Len(SavedIds) >= 2
  /\ Len(call.updates) >= 2

\* C9: with a sync field configured, a trigger other than removeFromColumn,
\* and a persisted list loaded or no sort: updateRecord is called exactly once
\* for the mutated record and once for each other record of the final order
\* whose stored sync value differs from its zero-based index, for no other
\* record, and each call carries the record's index in the final order.
C9_TargetedDiff ==
  [][(call'.op = "handleRecordUpdate" /\ OrderSyncField
        /\ call'.trigger # "removeFromColumn"
        /\ (call'.loaded \/ ~call'.hasSort)) =>
       LET final == call'.final
           us == call'.updates
           expected == {call'.record} \cup
                         {id \in Range(final) \ {call'.record} :
                            store[id].sync # PlaceOf(final, id) - 1}
       IN  /\ {us[k].id : k \in 1..Len(us)} = expected
           /\ Len(us) = Cardinality(expected)
           /\ \A k \in 1..Len(us) :
                /\ us[k].id \in Range(final)
                /\ us[k].sync = PlaceOf(final, us[k].id) - 1]_vars

\* C10 as claimed: sync field configured, trigger not removeFromColumn, no
\* persisted list loaded and no sort: only the mutated record is updated.
C10_CheapPathNoSort ==
  (Called /\ OrderSyncField /\ call.trigger # "removeFromColumn"
     /\ ~call.loaded /\ ~call.hasSort) =>
    \A k \in 1..Len(call.updates) : call.updates[k].id = call.record

\* C10 amended: sync field configured, trigger not removeFromColumn, no
\* persisted list loaded and a sort active: exactly one update is issued, for
\* the mutated record.
C10_CheapPathSort ==
  (Called /\ OrderSyncField /\ call.trigger # "removeFromColumn"
     /\ ~call.loaded /\ call.hasSort) =>
    /\ Len(call.updates) = 1
    /\ call.updates[1].id = call.record

\* C10 witness: such a call on a column with another record whose stored sync
\* value is not its index.
C10_Witness ==
  /\ Called
  /\ OrderSyncField
  /\ call.trigger # "removeFromColumn"
  /\ ~call.loaded
  /\ call.hasSort
  /\ \E k \in 1..Len(SavedIds) :
       SavedIds[k] # call.record /\ store[SavedIds[k]].sync # k - 1

----------------------------------------------------------------------------
(* Properties of handleSortColumns and of the configuration as a whole *)

\* C11: handleSortColumns(names) gives column names[i] the weight i and alters
\* nothing else of the configuration: the keys of config beside columns, and
\* every column entry that existed before the call, keep what they held (the
\* entry of a column that is not in names is the same as before, the entry of
\* a column in names the same but for its weight).
C11_SortFrame ==
  [][call'.op = "handleSortColumns" =>
       /\ \A i \in 1..Len(call'.names) :
            /\ call'.names[i] \in DOMAIN CfgColumns'
            /\ "weight" \in DOMAIN CfgColumns'[call'.names[i]]
            /\ CfgColumns'[call'.names[i]].weight = i - 1
       /\ \A key \in DOMAIN Cfg \ {"columns"} :
            key \in DOMAIN Cfg' /\ Cfg'[key] = Cfg[key]
       /\ \A column \in DOMAIN CfgColumns :
            /\ column \in DOMAIN CfgColumns'
            /\ \A key \in DOMAIN CfgColumns[column] \ {"weight"} :
                 /\ key \in DOMAIN CfgColumns'[column]
                 /\ CfgColumns'[column][key] = CfgColumns[column][key]
            /\ column \notin Range(call'.names) => CfgColumns'[column] = CfgColumns[column]
  ]_vars

\* C12: once handleRecordUpdate has persisted a column, the list of the column
\* holds only ids of records whose grouping value is the column; and after a
\* move (the removeFromColumn call on the source column of a record that the
\* destination column's list already holds) the id is in the list of one
\* column only.
C12_Membership ==
  (Called /\ groupByField) =>
     /\ \A id \in Range(SavedIds) : store[id].group = call.column
     /\ (call.trigger = "removeFromColumn" /\ store[call.record].group # call.column)
          => call.record \notin Range(SavedIds)

\* C13: when the configuration is undefined or has no records list for the
\* target column, handleRecordUpdate loads no persisted list and saves for the
\* column exactly the ids of the list the UI supplied, whatever hasSort and
\* hasFilter are; and handleSortColumns on a configuration without columns
\* saves exactly the named columns with the weights 0..n-1.
C13_EmptyConfig ==
  [][/\ \A column \in ColumnKeys :
          (call'.op = "handleRecordUpdate" /\ call'.column = column
             /\ ~HasConfigIds(column)) =>
            /\ ~call'.loaded
            /\ config'.defined
            /\ HasConfigIds(column)'
            /\ ConfigIds(column)' = call'.records
     /\ (call'.op = "handleSortColumns" /\ CfgColumns = Empty) =>
          /\ config'.defined
          /\ CfgColumns' = [name \in Range(call'.names) |->
                              [weight |-> FindIndex(call'.names, name)]]
  ]_vars

\* C13 witness: a call under filter on an undefined configuration with two
\* records in the UI list, the mutated one second.
C13_Witness ==
  /\ Called
  /\ ~call.hadConfigIds
  /\ call.hasFilter
  /\ Len(call.records) = 2
  /\ call.records[2] = call.record
  /\ call.trigger = "addToColumn"
  /\ SavedIds = call.records

----------------------------------------------------------------------------
(* Further properties of handleRecordUpdate *)

\* C14: a removeFromColumn call hands no record to updateRecord, leaves every
\* record as it was, saves the config once, and saves a list without the
\* mutated record in which the remaining records keep the order of the
\* persisted list (when one was loaded under sort or filter) or of the list
\* the UI supplied (otherwise).
C14_RemovalWritesConfigOnly ==
  [][(call'.op = "handleRecordUpdate" /\ call'.trigger = "removeFromColumn") =>
       /\ call'.updates = <<>>
       /\ store' = store
       /\ call'.saves = 1
       /\ saved' = config'
       /\ call'.record \notin Range(call'.final)
       /\ \A column \in ColumnKeys :
            call'.column = column => ConfigIds(column)' = call'.final
       /\ IF call'.loaded
            THEN SelectSeq(call'.final, LAMBDA id : id \in Range(call'.configIds))
                   = SelectSeq(call'.configIds,
                               LAMBDA id : store[id].live /\ id # call'.record)
            ELSE call'.final = call'.records
  ]_vars

\* C14 witness: a removal under filter with the sync field configured, from a
\* persisted list that holds the removed record between two others.
C14_Witness ==
  /\ Called
  /\ call.trigger = "removeFromColumn"
  /\ OrderSyncField
  /\ call.loaded
  /\ call.hasFilter
  /\ Len(call.configIds) = 3
  /\ call.configIds[2] = call.record
  /\ Len(SavedIds) = 2

\* C15: on a board with a grouping field, an addToColumn call hands the
\* mutated record to updateRecord, every time with the target column as its
\* grouping value, and leaves the grouping value of every other record alone;
\* a call with another trigger changes no grouping value.
C15_GroupingStamp ==
  [][(call'.op = "handleRecordUpdate" /\ groupByField) =>
       /\ \A k \in 1..Len(call'.updates) :
            call'.updates[k].group =
              IF call'.trigger = "addToColumn" /\ call'.updates[k].id = call'.record
                THEN call'.column
                ELSE store[call'.updates[k].id].group
       /\ call'.trigger = "addToColumn" =>
            /\ \E k \in 1..Len(call'.updates) : call'.updates[k].id = call'.record
            /\ store'[call'.record].group = call'.column
       /\ \A id \in Ids :
            (call'.trigger # "addToColumn" \/ id # call'.record)
              => store'[id].group = store[id].group
  ]_vars

\* C15 witness: a record of one column is added to the other column under a
\* sort, with the sync field configured and a persisted list loaded that
\* already holds it.
C15_Witness ==
  /\ Called
  /\ groupByField
  /\ call.trigger = "addToColumn"
  /\ call.hasSort
  /\ call.loaded
  /\ OrderSyncField
  /\ call.record \in Range(call.configIds)
  /\ Len(call.updates) = 2
  /\ store[call.record].group = call.column
  /\ \E id \in Ids : store[id].live /\ store[id].group # call.column

\* C16: under a sort the filter flag has no effect: what a call with hasSort
\* set saved and handed to updateRecord is what the same call, on the same
\* state and with the same arguments but the other value of hasFilter, saves
\* and hands to updateRecord.
C16_SortDominant ==
  [][\A column \in ColumnKeys :
       (call'.op = "handleRecordUpdate" /\ call'.hasSort /\ call'.column = column) =>
         LET loaded == IsConfigRecordsLoaded(column, TRUE, ~call'.hasFilter)
             final == FinalRecords(call'.record, column, call'.records, call'.trigger,
                                   TRUE, ~call'.hasFilter)
         IN  /\ loaded = call'.loaded
             /\ final = call'.final
             /\ config' = [defined |-> TRUE, value |-> NewConfig(column, final)]
             /\ saved' = config'
             /\ call'.updates = RecordsToUpdate(call'.record, column, final,
                                                call'.trigger, loaded, TRUE)
  ]_vars

\* C16 witness: under sort and filter a record is added between two visible
\* records of the persisted list, which does not hold it: it was appended, not
\* put between its neighbours.
C16_Witness ==
  /\ Called
  /\ call.hasSort
  /\ call.hasFilter
  /\ call.trigger = "addToColumn"
  /\ call.loaded
  /\ Len(call.records) = 3
  /\ call.records[2] = call.record
  /\ call.configIds = <<call.records[1], call.records[3]>>
  /\ SavedIds = <<call.records[1], call.records[3], call.record>>

\* C17: under a filter and no sort, when the persisted list, restricted to the
\* records of the UI list other than the mutated one, had them in the order of
\* the UI list before an addToColumn call, the list saved by the call,
\* restricted to the records of the UI list, is the UI list.
C17_VisibleOrder ==
  (/\ Called
   /\ call.trigger = "addToColumn"
   /\ call.hasFilter
   /\ ~call.hasSort
   /\ SelectSeq(call.configIds,
                LAMBDA id : id \in Range(call.records) /\ id # call.record)
        = SelectSeq(call.records,
                    LAMBDA id : id \in Range(call.configIds) /\ id # call.record))
    => SelectSeq(SavedIds, LAMBDA id : id \in Range(call.records)) = call.records

\* C18: after a call that loaded a persisted list (sort or filter active), the
\* live records of that list other than the mutated one are all in the saved
\* list, in the order the persisted list had them, and before every record
\* that was appended for being in the UI list and not in the persisted list;
\* the appended records are in the order of the UI list.
C18_PersistedOrderKept ==
  (Called /\ call.loaded) =>
    LET kept == Without(LiveOf(call.configIds), call.record)
        IsAppended(id) == id # call.record /\ id \notin Range(LiveOf(call.configIds))
    IN  /\ SelectSeq(SavedIds, LAMBDA id : id \in Range(kept)) = kept
        /\ SelectSeq(SavedIds, IsAppended) = SelectSeq(call.records, IsAppended)
        /\ \A i, j \in 1..Len(SavedIds) :
             (SavedIds[i] \in Range(kept) /\ IsAppended(SavedIds[j])) => i < j

\* C18 witness: a record is added under a filter in front of the one record of
\* the persisted list, with a third visible record that the persisted list
\* lacks.
C18_Witness ==
  /\ Called
  /\ call.loaded
  /\ call.hasFilter
  /\ ~call.hasSort
  /\ call.trigger = "addToColumn"
  /\ Len(call.configIds) = 1
  /\ Len(LiveOf(call.configIds)) = 1
  /\ call.record \notin Range(call.configIds)
  /\ Len(call.records) = 3
  /\ call.records[1] = call.record
  /\ call.records[2] = call.configIds[1]
  /\ SavedIds = call.records

\* C19: a handleRecordUpdate call saves the config once, the cached config
\* being the saved one, and the saved config differs from the one before the
\* call in the records list of the target column alone: the other keys of the
\* config, the entries of the other columns and the other keys of the target
\* column's entry are the same as before.
C19_RecordMutationFrame ==
  [][\A column \in ColumnKeys :
       (call'.op = "handleRecordUpdate" /\ call'.column = column) =>
         /\ call'.saves = 1
         /\ config'.defined
         /\ saved' = config'
         /\ DOMAIN Cfg' = DOMAIN Cfg \cup {"columns"}
         /\ \A key \in DOMAIN Cfg \ {"columns"} : Cfg'[key] = Cfg[key]
         /\ DOMAIN CfgColumns' = DOMAIN CfgColumns \cup {column}
         /\ \A other \in DOMAIN CfgColumns \ {column} :
              CfgColumns'[other] = CfgColumns[other]
         /\ DOMAIN CfgColumn(column)' = DOMAIN CfgColumn(column) \cup {"records"}
         /\ \A key \in DOMAIN CfgColumn(column) \ {"records"} :
              CfgColumn(column)'[key] = CfgColumn(column)[key]
         /\ ConfigIds(column)' = call'.final
  ]_vars

\* C19 witness: a call on a column that has a weight, on a board whose other
\* column has a weight and a persisted list, with the sync field configured.
C19_Witness ==
  /\ Called
  /\ groupByField
  /\ OrderSyncField
  /\ Len(SavedIds) = 2
  /\ "weight" \in DOMAIN CfgColumn(call.column)
  /\ \E other \in DOMAIN CfgColumns \ {call.column} :
       /\ "weight" \in DOMAIN CfgColumns[other]
       /\ "records" \in DOMAIN CfgColumns[other]
       /\ Len(CfgColumns[other].records) > 0

----------------------------------------------------------------------------
(* Properties of the settings store *)

\* C20: once onload has finished, every workspace that a create-workspace
\* callback added before onunload has been in the value of a saveData call
\* made after it was added and is in the store; and saveData is never called
\* after onunload.
C20_SettingsSaved ==
  /\ plugin.pc = "loaded" =>
       /\ plugin.unsaved = {}
       /\ \A workspace \in plugin.added :
            \E k \in 1..Len(plugin.settings) : plugin.settings[k] = workspace
  /\ ~plugin.savedAfterUnload

============================================================================
